---- MODULE Spec2Model ----
(***************************************************************************)
(* Model of the first-fit heap allocator of src/src/allocator.rs.          *)
(*                                                                         *)
(* Memory is modelled as the set of addresses at which a Header has been   *)
(* written (mem), each holding the three live fields of the struct.  A     *)
(* Box<Header> is the address of the header, Option<Box<Header>>::None is  *)
(* the null address.  The callers' view (which pointers were returned and  *)
(* not yet released, which memory map was handed over) is kept in ghost    *)
(* variables that no operation of the allocator reads.                     *)
(***************************************************************************)
EXTENDS Integers, Sequences, FiniteSets, TLC

(***************************************************************************)
(* Bounds of the model.                                                    *)
(***************************************************************************)
\* Width of usize in the model.  The target has usize::BITS = 64; the word
\* is kept narrower here so that every value stays inside TLC's integers.
\* All word arithmetic below is done modulo 2^USIZE_BITS.
USIZE_BITS == 22
\* Number of allocate / deallocate calls explored after bootstrap.
MaxOps == 3
\* Number of descriptors in a firmware memory map.
MaxDescriptors == 2
\* Every value 0..MaxSmall is an input of round_up_to_nearest_pow2.
MaxSmall == 300
\* An allocation loop runs on regions of at most MaxLoopRatio times the
\* size it requests.
MaxLoopRatio == 128

(***************************************************************************)
(* Program constants.                                                      *)
(***************************************************************************)
HEADER_SIZE == 32
PAGE_SIZE == 4096
CONVENTIONAL_MEMORY == 7
BOOT_SERVICES_DATA == 4
NULL == 0

Pow2[n \in Nat] == IF n = 0 THEN 1 ELSE 2 * Pow2[n - 1]

USIZE_MOD == Pow2[USIZE_BITS]
USIZE_MAX == USIZE_MOD - 1

(***************************************************************************)
(* usize primitives used by the allocator.                                 *)
(***************************************************************************)
wrapping_sub(a, b) == (a - b + USIZE_MOD) % USIZE_MOD

saturating_sub(a, b) == IF a >= b THEN a - b ELSE 0

\* Number of bits of x: the position of its highest set bit.
BitLen[x \in Nat] == IF x = 0 THEN 0 ELSE 1 + BitLen[x \div 2]

leading_zeros(x) == USIZE_BITS - BitLen[x]

\* Option / Result values: ok = FALSE is None / Err.
checked_shl(x, n) ==
    IF n >= USIZE_BITS
    THEN [ok |-> FALSE, val |-> 0]
    ELSE [ok |-> TRUE, val |-> (x * Pow2[n]) % USIZE_MOD]

BitAnd[a \in Nat, b \in Nat] ==
    IF a = 0 \/ b = 0 THEN 0
    ELSE (a % 2) * (b % 2) + 2 * BitAnd[a \div 2, b \div 2]

BitNot(a) == USIZE_MAX - a

max(a, b) == IF a >= b THEN a ELSE b

InWord(x) == 0 <= x /\ x <= USIZE_MAX

\* Mutation of round_up_to_nearest_pow2: the argument is not decremented
\* before its bits are counted.
round_up_to_nearest_pow2_no_dec(v) ==
    checked_shl(1, USIZE_BITS - leading_zeros(v))

(***************************************************************************)
(* round_up_to_nearest_pow2                                                *)
(***************************************************************************)
round_up_to_nearest_pow2(v) ==
    checked_shl(1, USIZE_BITS - leading_zeros(wrapping_sub(v, 1)))

(***************************************************************************)
(* Header                                                                  *)
(***************************************************************************)
\* Mutation of can_provide: the room for the two headers and the alignment
\* slack is not asked for.
can_provide_no_slack(h, size, align) == h.size >= size

can_provide(h, size, align) == h.size >= size + HEADER_SIZE * 2 + align

is_allocated(h) == h.is_allocated

end_addr(m, addr) == addr + m[addr].size

\* Writes a zeroed header at addr, whatever was there before.
new_from_addr(m, addr) ==
    (addr :> [next_header |-> NULL, size |-> 0, is_allocated |-> FALSE]) @@ m

from_allocated_region(addr) == addr - HEADER_SIZE

\* Mutation of allocated_addr_of: the alignment mask is left out.
allocated_addr_of_nomask(self_end, size, align) ==
    wrapping_sub(self_end, size)

\* allocated_addr of provide: the payload address carved from the top of a
\* block ending at self_end.
allocated_addr_of(self_end, size, align) ==
    BitAnd[wrapping_sub(self_end, size), BitNot(align - 1)]

\* Mutation of padding_size: the leftover's own header is taken off its size.
padding_size_less_header(m, self, ha) ==
    end_addr(m, self) - end_addr(m, ha) - HEADER_SIZE

\* header_for_padding.size of provide: the bytes between the end of the
\* allocated block at ha and the end of the block being split.
padding_size(m, self, ha) == end_addr(m, self) - end_addr(m, ha)

\* The else branch of provide in three parts; size and align are the
\* rounded values.  Each LET step is one statement of the source, applied
\* to the memory left by the statements before it.  drop collects the
\* boxes that an assignment to next_header overwrites: dropping one that
\* is not None runs Header::drop, which panics.
\* Lines 64-71: the header of the allocated block.
Carve(m, self, size, align) ==
    LET self_end == end_addr(m, self)
        allocated_addr == allocated_addr_of(self_end, size, align)
        ha == allocated_addr - HEADER_SIZE
        m1 == new_from_addr(m, ha)
        m2 == [m1 EXCEPT ![ha].is_allocated = TRUE,
                         ![ha].size = size + HEADER_SIZE]
        m3 == [m2 EXCEPT ![ha].next_header = m2[self].next_header,
                         ![self].next_header = NULL]
    IN  [ptr |-> allocated_addr,
         ha |-> ha,
         mem |-> m3,
         size_used |-> m2[ha].size,
         drop |-> {m2[ha].next_header} \ {NULL},
         \* an unsigned subtraction that would go below zero
         wrap |-> ~(InWord(self_end - size) /\ InWord(ha))]

\* Lines 72-82: the header of the leftover, when there is one.
Pad(c, self) ==
    LET m3 == c.mem
        ha == c.ha
        padded == end_addr(m3, ha) # end_addr(m3, self)
        hp == end_addr(m3, ha)
        m4 == new_from_addr(m3, hp)
        m5 == [m4 EXCEPT ![ha].is_allocated = FALSE]
        m6 == [m5 EXCEPT ![hp].size = padding_size(m5, self, ha)]
        m7a == [m6 EXCEPT ![hp].next_header = m6[ha].next_header,
                          ![ha].next_header = NULL]
        m7 == [m7a EXCEPT ![ha].next_header = hp]
    IN  IF padded
        THEN [c EXCEPT !.mem = m7,
                       !.size_used = c.size_used + m6[hp].size,
                       !.drop = c.drop \cup ({m6[hp].next_header,
                                              m7a[ha].next_header} \ {NULL}),
                       !.wrap = c.wrap \/ ~InWord(padding_size(m5, self, ha))]
        ELSE c

\* Mutation of Finish: the original block is made its own successor.
Finish_self_link(c, self) ==
    LET mb == c.mem
        m8 == [mb EXCEPT ![self].size = mb[self].size - c.size_used]
        m9 == [m8 EXCEPT ![self].next_header = self]
    IN  [ptr |-> c.ptr,
         mem |-> m9,
         abort |-> c.wrap \/ ~InWord(mb[self].size - c.size_used)]

\* Lines 83-85: the original block shrinks and points at the new header.
Finish(c, self) ==
    LET mb == c.mem
        m8 == [mb EXCEPT ![self].size = mb[self].size - c.size_used]
        m9 == [m8 EXCEPT ![self].next_header = c.ha]
    IN  [ptr |-> c.ptr,
         mem |-> m9,
         abort |-> \/ c.wrap
                   \/ ~InWord(mb[self].size - c.size_used)
                   \/ (c.drop \cup ({m8[self].next_header} \ {NULL})) # {}]

\* The three parts in sequence, each applied to the value of the one before.
Split(m, self, size, align) ==
    CHOOSE r \in { Finish(d, self) :
                      d \in { Pad(c, self) :
                                c \in {Carve(m, self, size, align)} } } : TRUE

provide(m, self, size, align) ==
    LET r == round_up_to_nearest_pow2(size) IN
    IF ~r.ok
    THEN [ptr |-> NULL, mem |-> m, abort |-> FALSE]
    ELSE LET rsize == max(r.val, HEADER_SIZE)
             ralign == max(align, HEADER_SIZE)
         IN  IF is_allocated(m[self]) \/ ~can_provide(m[self], rsize, ralign)
             THEN [ptr |-> NULL, mem |-> m, abort |-> FALSE]
             ELSE Split(m, self, rsize, ralign)

(***************************************************************************)
(* FirstFitAllocator                                                       *)
(***************************************************************************)
\* Mutation of alloc_loop: only the head block is tried.
alloc_loop_head_only(m, header, size, align) ==
    IF header = NULL
    THEN [ptr |-> NULL, mem |-> m, abort |-> FALSE]
    ELSE provide(m, header, size, align)

\* Mutation of alloc_loop: the blocks after header are tried before header.
RECURSIVE alloc_loop_last_fit(_, _, _, _)
alloc_loop_last_fit(m, header, size, align) ==
    IF header = NULL
    THEN [ptr |-> NULL, mem |-> m, abort |-> FALSE]
    ELSE LET p == alloc_loop_last_fit(m, m[header].next_header, size, align) IN
         IF p.ptr # NULL
         THEN p
         ELSE provide(m, header, size, align)

\* Mutation of alloc_loop: moving on takes the successor out of the block.
RECURSIVE alloc_loop_take(_, _, _, _)
alloc_loop_take(m, header, size, align) ==
    IF header = NULL
    THEN [ptr |-> NULL, mem |-> m, abort |-> FALSE]
    ELSE LET p == provide(m, header, size, align) IN
         IF p.ptr # NULL
         THEN p
         ELSE alloc_loop_take([m EXCEPT ![header].next_header = NULL],
                              m[header].next_header, size, align)

\* The loop of alloc_with_options, started at header.
RECURSIVE alloc_loop(_, _, _, _)
alloc_loop(m, header, size, align) ==
    IF header = NULL
    THEN [ptr |-> NULL, mem |-> m, abort |-> FALSE]
    ELSE LET p == provide(m, header, size, align) IN
         IF p.ptr # NULL
         THEN p
         ELSE alloc_loop(m, m[header].next_header, size, align)

alloc_with_options(m, first, size, align) == alloc_loop(m, first, size, align)

\* Mutation of add_free_from_descriptor: a region at address 0 is moved
\* forward by one page but keeps its size.
add_free_from_descriptor_noshrink(st, d) ==
    LET start_addr == IF d.physical_start = 0 THEN PAGE_SIZE ELSE d.physical_start
        size == (d.number_of_pages * PAGE_SIZE) % USIZE_MOD
    IN  IF size <= PAGE_SIZE
        THEN st
        ELSE [first |-> start_addr,
              mem |-> (start_addr :> [next_header |-> st.first, size |-> size,
                                      is_allocated |-> FALSE]) @@ st.mem]

\* Mutation of add_free_from_descriptor: the new head is not linked to the
\* previous head.
add_free_from_descriptor_nolink(st, d) ==
    LET start_addr == IF d.physical_start = 0 THEN PAGE_SIZE ELSE d.physical_start
        size == IF d.physical_start = 0
                THEN saturating_sub((d.number_of_pages * PAGE_SIZE) % USIZE_MOD,
                                    PAGE_SIZE)
                ELSE (d.number_of_pages * PAGE_SIZE) % USIZE_MOD
    IN  IF size <= PAGE_SIZE
        THEN st
        ELSE [first |-> start_addr,
              mem |-> (start_addr :> [next_header |-> NULL, size |-> size,
                                      is_allocated |-> FALSE]) @@ st.mem]

\* st = [first, mem]; d = [memory_type, physical_start, number_of_pages].
add_free_from_descriptor(st, d) ==
    LET start0 == d.physical_start
        size0 == (d.number_of_pages * PAGE_SIZE) % USIZE_MOD
        start_addr == IF start0 = 0 THEN start0 + PAGE_SIZE ELSE start0
        size == IF start0 = 0 THEN saturating_sub(size0, PAGE_SIZE) ELSE size0
    IN  IF size <= PAGE_SIZE
        THEN st
        ELSE LET m1 == new_from_addr(st.mem, start_addr)
                 m2 == [m1 EXCEPT ![start_addr].next_header = NULL,
                                  ![start_addr].is_allocated = FALSE,
                                  ![start_addr].size = size]
                 prev_last == st.first
             IN  [first |-> start_addr,
                  mem |-> [m2 EXCEPT ![start_addr].next_header = prev_last]]

\* Mutation of init_loop: the usage class is not looked at.
RECURSIVE init_loop_any_type(_, _, _)
init_loop_any_type(st, memory_map, i) ==
    IF i > Len(memory_map)
    THEN st
    ELSE init_loop_any_type(add_free_from_descriptor(st, memory_map[i]),
                            memory_map, i + 1)

RECURSIVE init_loop(_, _, _)
init_loop(st, memory_map, i) ==
    IF i > Len(memory_map)
    THEN st
    ELSE IF memory_map[i].memory_type # CONVENTIONAL_MEMORY
         THEN init_loop(st, memory_map, i + 1)
         ELSE init_loop(add_free_from_descriptor(st, memory_map[i]),
                        memory_map, i + 1)

init_with_mmap(st, memory_map) == init_loop(st, memory_map, 1)

\* Mutation of dealloc: the released header is also unlinked.
dealloc_unlink(m, ptr) ==
    LET region == from_allocated_region(ptr) IN
    [m EXCEPT ![region].is_allocated = FALSE, ![region].next_header = NULL]

\* GlobalAlloc::dealloc(ptr, _layout): the layout is not used.
dealloc(m, ptr) ==
    LET region == from_allocated_region(ptr) IN
    [m EXCEPT ![region].is_allocated = FALSE]

(***************************************************************************)
(* Inputs                                                                  *)
(***************************************************************************)
Desc(t, start, pages) ==
    [memory_type |-> t, physical_start |-> start, number_of_pages |-> pages]

\* Firmware descriptors: usable and not, at address 0 and elsewhere, one
\* page, two pages and more.
DescriptorPool ==
    { Desc(CONVENTIONAL_MEMORY, 0, 3),
      Desc(CONVENTIONAL_MEMORY, 0, 2),
      Desc(CONVENTIONAL_MEMORY, 16384, 2),
      Desc(CONVENTIONAL_MEMORY, 16384, 1),
      Desc(BOOT_SERVICES_DATA, 32768, 4),
      Desc(CONVENTIONAL_MEMORY, 1048576, 16) }

DescEnd(d) == d.physical_start + d.number_of_pages * PAGE_SIZE

Disjoint(lo1, hi1, lo2, hi2) == hi1 <= lo2 \/ hi2 <= lo1

\* A memory map lists pairwise disjoint regions.
IsMemoryMap(mm) ==
    \A i, j \in 1..Len(mm) :
        i # j => Disjoint(mm[i].physical_start, DescEnd(mm[i]),
                          mm[j].physical_start, DescEnd(mm[j]))

MemoryMaps ==
    { mm \in UNION { [1..n -> DescriptorPool] : n \in 1..MaxDescriptors } :
        IsMemoryMap(mm) }

\* Layouts <<size, align>>, align a power of two: the size whose rounding
\* fails, a size below the header size, the two requests of the
\* specification's scenario (64/16 and 1 MiB/8), LAYOUT_PAGE_4K, and
\* requests whose alignment exceeds or is below their size.
Layouts ==
    { <<0, 8>>, <<24, 8>>, <<64, 16>>, <<2048, 8>>, <<2048, 4096>>,
      <<4096, 2048>>, <<4096, 4096>>, <<1048576, 8>> }

(***************************************************************************)
(* State                                                                   *)
(***************************************************************************)
VARIABLES
    first_header,   \* FirstFitAllocator.first_header: NULL or an address
    mem,            \* the headers in memory, by address
    live,           \* ghost: allocations returned and not yet deallocated
    mmap,           \* ghost: the memory map handed to init_with_mmap
    ninit,          \* ghost: number of init_with_mmap calls
    hist,           \* ghost: the calls made so far, with their results
    nops,           \* ghost: number of alloc / dealloc calls so far
    fixed,          \* the layout a caller's allocation loop repeats
    pow2_in,        \* argument of a round_up_to_nearest_pow2 call
    pow2_out,       \* its result
    borrowed,       \* the RefCell around first_header is mutably borrowed
    walk            \* an alloc_with_options call in progress: its cursor

vars == <<first_header, mem, live, mmap, ninit, hist, nops, fixed,
          pow2_in, pow2_out, borrowed, walk>>

EmptyMem == [a \in {} |-> 0]

Call(op, size, align, ptr, abort) ==
    [op |-> op, size |-> size, align |-> align, ptr |-> ptr, abort |-> abort]

NoCall == Call("none", 0, 0, NULL, FALSE)

Last(h) == IF h = <<>> THEN NoCall ELSE h[Len(h)]

NoLayout == <<0, 0>>

NoResult == [done |-> FALSE, ok |-> FALSE, val |-> 0]

\* No alloc_with_options call is in progress.
NoWalk == [active |-> FALSE, cur |-> NULL, size |-> 0, align |-> 0]

\* The allocator as constructed: static ALLOCATOR with first_header None
\* in a RefCell nobody has borrowed.
Constructed ==
    /\ borrowed = FALSE
    /\ walk = NoWalk
    /\ first_header = NULL
    /\ mem = EmptyMem
    /\ live = {}
    /\ mmap = <<>>
    /\ ninit = 0
    /\ hist = <<>>
    /\ nops = 0

Init ==
    /\ Constructed
    /\ fixed = NoLayout
    /\ pow2_in = 0
    /\ pow2_out = NoResult

\* ALLOCATOR.init_with_mmap(memory_map)
InitWithMmap(memory_map) ==
    LET st == init_with_mmap([first |-> first_header, mem |-> mem], memory_map)
    IN  /\ first_header' = st.first
        /\ mem' = st.mem
        /\ mmap' = memory_map
        /\ ninit' = ninit + 1
        /\ hist' = Append(hist, Call("init", 0, 0, NULL, FALSE))
        /\ UNCHANGED <<live, nops, fixed, pow2_in, pow2_out,
                   borrowed, walk>>

\* ALLOCATOR.alloc(Layout { size, align })
Alloc(size, align) ==
    LET r == alloc_with_options(mem, first_header, size, align)
    IN  /\ mem' = r.mem
        /\ live' = IF r.ptr = NULL THEN live
                   ELSE live \cup {[id |-> nops, ptr |-> r.ptr,
                                    size |-> size, align |-> align]}
        /\ hist' = Append(hist, Call("alloc", size, align, r.ptr, r.abort))
        /\ nops' = nops + 1
        /\ UNCHANGED <<first_header, mmap, ninit, fixed, pow2_in, pow2_out,
                   borrowed, walk>>

\* ALLOCATOR.dealloc(a.ptr, Layout { a.size, a.align }) for a live allocation
Dealloc(a) ==
    /\ a \in live
    /\ mem' = dealloc(mem, a.ptr)
    /\ live' = live \ {a}
    /\ hist' = Append(hist, Call("dealloc", a.size, a.align, a.ptr, FALSE))
    /\ nops' = nops + 1
    /\ UNCHANGED <<first_header, mmap, ninit, fixed, pow2_in, pow2_out,
                   borrowed, walk>>

DoInit == ninit = 0 /\ \E mm \in MemoryMaps : InitWithMmap(mm)
DoAlloc == ninit > 0 /\ nops < MaxOps /\ \E l \in Layouts : Alloc(l[1], l[2])
DoDealloc == ninit > 0 /\ nops < MaxOps /\ \E a \in live : Dealloc(a)

Next == DoInit \/ DoAlloc \/ DoDealloc

\* Any sequence of calls: one bootstrap, then allocate and deallocate.
Spec == Init /\ [][Next]_vars

(***************************************************************************)
(* A caller that seeds one region and then repeats allocate with one       *)
(* layout until it gets null.  The loop keeps being scheduled: the program *)
(* has a single execution context and every call returns.                  *)
(***************************************************************************)
OneRegionMaps ==
    { mm \in MemoryMaps :
        /\ Len(mm) = 1
        /\ mm[1].memory_type = CONVENTIONAL_MEMORY
        /\ mm[1].number_of_pages > (IF mm[1].physical_start = 0 THEN 2 ELSE 1) }

\* The region is at most MaxLoopRatio times the requested size, which
\* bounds the number of calls the loop makes.
LoopRegion(mm, l) == mm[1].number_of_pages * PAGE_SIZE <= MaxLoopRatio * l[1]

LoopLayouts ==
    { l \in Layouts : l[1] # 0 /\ \E mm \in OneRegionMaps : LoopRegion(mm, l) }

Failed == Last(hist).op = "alloc" /\ Last(hist).ptr = NULL

InitExhaust ==
    /\ Constructed
    /\ fixed \in LoopLayouts
    /\ pow2_in = 0
    /\ pow2_out = NoResult

SeedOne ==
    /\ ninit = 0
    /\ \E mm \in OneRegionMaps : LoopRegion(mm, fixed) /\ InitWithMmap(mm)

LoopAlloc == ninit = 1 /\ ~Failed /\ Alloc(fixed[1], fixed[2])

NextExhaust == SeedOne \/ LoopAlloc

SpecExhaust == InitExhaust /\ [][NextExhaust]_vars /\ WF_vars(NextExhaust)

(***************************************************************************)
(* round_up_to_nearest_pow2 on its own: one call on an argument taken from *)
(* every small value and from the neighbours of every power of two.        *)
(***************************************************************************)
Pow2Inputs ==
    { v \in (0..MaxSmall)
            \cup { Pow2[k] + d : k \in 0..(USIZE_BITS - 1), d \in {-1, 0, 1} }
            \cup { USIZE_MAX - 1, USIZE_MAX } : InWord(v) }

InitPow2 ==
    /\ Constructed
    /\ fixed = NoLayout
    /\ pow2_in \in Pow2Inputs
    /\ pow2_out = NoResult

RoundUp ==
    /\ ~pow2_out.done
    /\ pow2_out' = [done |-> TRUE,
                    ok |-> round_up_to_nearest_pow2(pow2_in).ok,
                    val |-> round_up_to_nearest_pow2(pow2_in).val]
    /\ UNCHANGED <<first_header, mem, live, mmap, ninit, hist, nops, fixed,
                   pow2_in, borrowed, walk>>

NextPow2 == RoundUp

SpecPow2 == InitPow2 /\ [][NextPow2]_vars

(***************************************************************************)
(* alloc_with_options one loop iteration at a time, with calls made by an  *)
(* interrupt handler while the traversal holds the RefCell.  A failed      *)
(* borrow_mut panics ("already borrowed"); the panic handler never         *)
(* returns, so nothing runs after it.                                      *)
(***************************************************************************)
\* The last call panicked.
Halted == Last(hist).abort

\* let mut header = self.first_header.borrow_mut();
BeginAlloc(size, align) ==
    /\ ~borrowed
    /\ ~walk.active
    /\ borrowed' = TRUE
    /\ walk' = [active |-> TRUE, cur |-> first_header,
                size |-> size, align |-> align]
    /\ nops' = nops + 1
    /\ UNCHANGED <<first_header, mem, live, mmap, ninit, hist, fixed,
                   pow2_in, pow2_out>>

\* One iteration of the loop; leaving the loop releases the borrow.
StepAlloc ==
    /\ walk.active
    /\ ~Halted
    /\ LET p == IF walk.cur = NULL
                THEN [ptr |-> NULL, mem |-> mem, abort |-> FALSE]
                ELSE provide(mem, walk.cur, walk.size, walk.align)
       IN  IF walk.cur # NULL /\ p.ptr = NULL
           THEN /\ walk' = [walk EXCEPT !.cur = mem[walk.cur].next_header]
                /\ UNCHANGED <<mem, live, hist, borrowed>>
           ELSE /\ mem' = p.mem
                /\ live' = IF p.ptr = NULL THEN live
                           ELSE live \cup {[id |-> nops, ptr |-> p.ptr,
                                            size |-> walk.size,
                                            align |-> walk.align]}
                /\ hist' = Append(hist, Call("alloc", walk.size, walk.align,
                                             p.ptr, p.abort))
                /\ walk' = NoWalk
                /\ borrowed' = FALSE
    /\ UNCHANGED <<first_header, mmap, ninit, nops, fixed, pow2_in, pow2_out>>

\* alloc from the handler: borrow_mut on a RefCell already borrowed.
IrqAlloc(size, align) ==
    /\ borrowed
    /\ hist' = Append(hist, Call("alloc", size, align, NULL, TRUE))
    /\ nops' = nops + 1
    /\ UNCHANGED <<first_header, mem, live, mmap, ninit, fixed,
                   pow2_in, pow2_out, borrowed, walk>>

\* The statements of add_free_from_descriptor before its first borrow_mut.
header_from_descriptor(m, d) ==
    LET start0 == d.physical_start
        size0 == (d.number_of_pages * PAGE_SIZE) % USIZE_MOD
        start_addr == IF start0 = 0 THEN start0 + PAGE_SIZE ELSE start0
        size == IF start0 = 0 THEN saturating_sub(size0, PAGE_SIZE) ELSE size0
    IN  IF size <= PAGE_SIZE
        THEN [mem |-> m, borrows |-> FALSE]
        ELSE LET m1 == new_from_addr(m, start_addr)
             IN  [mem |-> [m1 EXCEPT ![start_addr].next_header = NULL,
                                     ![start_addr].is_allocated = FALSE,
                                     ![start_addr].size = size],
                  borrows |-> TRUE]

\* add_free_from_descriptor from the handler: the header is written at the
\* region's start, then borrow_mut fails.
IrqSeed(d) ==
    /\ borrowed
    /\ d.memory_type = CONVENTIONAL_MEMORY
    /\ LET r == header_from_descriptor(mem, d)
       IN  /\ r.borrows
           /\ mem' = r.mem
    /\ hist' = Append(hist, Call("init", 0, 0, NULL, TRUE))
    /\ nops' = nops + 1
    /\ UNCHANGED <<first_header, live, mmap, ninit, fixed,
                   pow2_in, pow2_out, borrowed, walk>>

\* dealloc from the handler: it never touches the RefCell.
IrqDealloc(a) ==
    /\ borrowed
    /\ Dealloc(a)

DoBeginAlloc ==
    /\ ninit > 0 /\ nops < MaxOps /\ ~Halted
    /\ \E l \in Layouts : BeginAlloc(l[1], l[2])

DoIrqAlloc ==
    /\ nops < MaxOps /\ ~Halted
    /\ \E l \in Layouts : IrqAlloc(l[1], l[2])

DoIrqSeed ==
    /\ nops < MaxOps /\ ~Halted
    /\ \E d \in DescriptorPool : IrqSeed(d)

DoIrqDealloc ==
    /\ nops < MaxOps /\ ~Halted
    /\ \E a \in live : IrqDealloc(a)

NextReentrant ==
    DoInit \/ DoBeginAlloc \/ StepAlloc \/ DoIrqAlloc \/ DoIrqSeed \/ DoIrqDealloc

SpecReentrant == Init /\ [][NextReentrant]_vars

(***************************************************************************)
(* alloc_with_options one loop iteration at a time in a single execution   *)
(* context: no other call is made while the loop runs.                     *)
(***************************************************************************)
WalkDealloc == ~walk.active /\ DoDealloc

NextWalk == DoInit \/ DoBeginAlloc \/ StepAlloc \/ WalkDealloc

SpecWalk == Init /\ [][NextWalk]_vars

(***************************************************************************)
(* A caller that repeats alloc with one layout and deallocs each result    *)
(* before the next call, until alloc returns null.                         *)
(***************************************************************************)
ChurnAlloc == ninit = 1 /\ ~Failed /\ live = {} /\ Alloc(fixed[1], fixed[2])

ChurnDealloc == ninit = 1 /\ \E a \in live : Dealloc(a)

NextChurn == SeedOne \/ ChurnAlloc \/ ChurnDealloc

SpecChurn == InitExhaust /\ [][NextChurn]_vars /\ WF_vars(NextChurn)

(***************************************************************************)
(* init_with_mmap called a second time, at any point after the first call. *)
(* Seeding a region again rewrites the header at its start, and the chain  *)
(* can then lead back to a block it has already passed.                    *)
(***************************************************************************)
OneDescriptorMaps == { mm \in MemoryMaps : Len(mm) = 1 }

SeedFirst == ninit = 0 /\ \E mm \in OneRegionMaps : InitWithMmap(mm)

SeedAgain == ninit = 1 /\ \E mm \in OneDescriptorMaps : InitWithMmap(mm)

\* The headers the loop of alloc_with_options visits from header, each
\* once: the loop returns if the chain ends or some visited block provides.
RECURSIVE Visited(_, _, _)
Visited(m, header, seen) ==
    IF header = NULL \/ header \in seen THEN seen
    ELSE Visited(m, m[header].next_header, seen \cup {header})

RECURSIVE Ends(_, _, _)
Ends(m, header, seen) ==
    IF header = NULL THEN TRUE
    ELSE IF header \in seen THEN FALSE
    ELSE Ends(m, m[header].next_header, seen \cup {header})

Returns(size, align) ==
    \/ Ends(mem, first_header, {})
    \/ \E h \in Visited(mem, first_header, {}) :
           provide(mem, h, size, align).ptr # NULL

\* An alloc call that returns; on a chain that loops and has no block for
\* the request the call never returns and there is no step.
DoAllocReturning ==
    /\ ninit > 0 /\ nops < MaxOps
    /\ \E l \in Layouts : Returns(l[1], l[2]) /\ Alloc(l[1], l[2])

NextReinit == SeedFirst \/ SeedAgain \/ DoAllocReturning \/ DoDealloc

SpecReinit == Init /\ [][NextReinit]_vars

(***************************************************************************)
(* Vocabulary of the properties                                            *)
(***************************************************************************)
\* The headers reachable from h through next_header, in traversal order
\* (at most n of them).
RECURSIVE ChainFrom(_, _, _)
ChainFrom(m, h, n) ==
    IF h = NULL \/ n = 0 THEN <<>>
    ELSE <<h>> \o ChainFrom(m, m[h].next_header, n - 1)

Chain == ChainFrom(mem, first_header, Cardinality(DOMAIN mem) + 1)

Blocks == { Chain[i] : i \in 1..Len(Chain) }

RECURSIVE SumSizes(_, _)
SumSizes(m, S) ==
    IF S = {} THEN 0
    ELSE LET h == CHOOSE x \in S : TRUE IN m[h].size + SumSizes(m, S \ {h})

Powers == { Pow2[k] : k \in 0..(USIZE_BITS - 1) }

IsPow2(x) == x \in Powers

\* rounded_size and rounded_align of a request, as the specification words
\* them: the smallest power of two >= size, raised to HEADER_SIZE.
RoundedSize(size) ==
    LET p == CHOOSE q \in Powers : q >= size /\ \A r \in Powers : r >= size => q <= r
    IN  IF p >= HEADER_SIZE THEN p ELSE HEADER_SIZE

RoundedAlign(align) == IF align >= HEADER_SIZE THEN align ELSE HEADER_SIZE

RoundingFails(size) == size = 0 \/ ~(\E q \in Powers : q >= size)

Threshold(size, align) ==
    RoundedSize(size) + 2 * HEADER_SIZE + RoundedAlign(align)

\* A block that satisfies a request, in memory m.
Fits(m, h, size, align) ==
    ~m[h].is_allocated /\ m[h].size >= Threshold(size, align)

\* The regions bootstrap is specified to seed: usable, and larger than one
\* page after a start of 0 has been moved forward by one page.
AdjStart(d) == IF d.physical_start = 0 THEN PAGE_SIZE ELSE d.physical_start

AdjSize(d) ==
    IF d.physical_start = 0
    THEN (IF d.number_of_pages >= 1 THEN (d.number_of_pages - 1) * PAGE_SIZE ELSE 0)
    ELSE d.number_of_pages * PAGE_SIZE

Seedable(d) == d.memory_type = CONVENTIONAL_MEMORY /\ AdjSize(d) > PAGE_SIZE

SeededRegions(mm) ==
    { [start |-> AdjStart(mm[i]), size |-> AdjSize(mm[i])] :
        i \in { j \in 1..Len(mm) : Seedable(mm[j]) } }

BlocksIn(R) == { h \in Blocks : R.start <= h /\ h < R.start + R.size }

(***************************************************************************)
(* C1.  After one initialize, the payload range [address, address+size) of *)
(* an allocation that was returned and not yet deallocated never overlaps  *)
(* the payload range of another one.                                       *)
(***************************************************************************)
C1_NoOverlap ==
    ninit = 1 =>
        \A a, b \in live :
            a # b => Disjoint(a.ptr, a.ptr + a.size, b.ptr, b.ptr + b.size)

(***************************************************************************)
(* C2.  For every allocation returned and not yet deallocated, the header  *)
(* HEADER_SIZE bytes before its address is marked allocated and has        *)
(* size = rounded_size + HEADER_SIZE, with or without alignment leftover.  *)
(***************************************************************************)
C2_HeaderAllocated ==
    \A a \in live :
        /\ (a.ptr - HEADER_SIZE) \in DOMAIN mem
        /\ mem[a.ptr - HEADER_SIZE].is_allocated
        /\ mem[a.ptr - HEADER_SIZE].size = RoundedSize(a.size) + HEADER_SIZE

(***************************************************************************)
(* C3.  The blocks reachable from the head are pairwise non-overlapping    *)
(* and cover exactly the seeded regions: every block lies in one region,   *)
(* the blocks of a region tile it contiguously from its start to its end,  *)
(* and their sizes add up to the region's seeded size.                     *)
(***************************************************************************)
C3_Partition ==
    ninit = 1 =>
        /\ Len(Chain) = Cardinality(Blocks)
        /\ \A h, k \in Blocks :
               h # k => Disjoint(h, h + mem[h].size, k, k + mem[k].size)
        /\ \A h \in Blocks : \E R \in SeededRegions(mmap) :
               R.start <= h /\ h + mem[h].size <= R.start + R.size
        /\ \A R \in SeededRegions(mmap) :
               /\ R.start \in BlocksIn(R)
               /\ \A h \in BlocksIn(R) :
                      \/ h + mem[h].size = R.start + R.size
                      \/ h + mem[h].size \in BlocksIn(R)
               /\ SumSizes(mem, BlocksIn(R)) = R.size

\* C3 witness: a region split by allocations with and without leftover,
\* one of them released again.
C3_Witness ==
    /\ ninit = 1
    /\ \E R \in SeededRegions(mmap) : Cardinality(BlocksIn(R)) >= 4
    /\ \E i \in 1..Len(hist) : hist[i].op = "dealloc"

(***************************************************************************)
(* C4.  An address returned by a successful allocate(size, align) is       *)
(* non-null, a multiple of align, and its payload [address, address+size)  *)
(* lies inside one seeded region.                                          *)
(***************************************************************************)
C4_AlignedInRegion ==
    (Last(hist).op = "alloc" /\ Last(hist).ptr # NULL) =>
        LET c == Last(hist) IN
        /\ c.ptr % c.align = 0
        /\ \E R \in SeededRegions(mmap) :
               R.start <= c.ptr /\ c.ptr + c.size <= R.start + R.size

\* C4 witness: the scenario of the specification, seed {0x100000, 16 pages}
\* and allocate(64, 16), and an allocation aligned beyond the header size.
C4_Witness ==
    /\ mmap = <<Desc(CONVENTIONAL_MEMORY, 1048576, 16)>>
    /\ Last(hist).op = "alloc"
    /\ Last(hist).ptr # NULL
    /\ \/ Last(hist).size = 64 /\ Last(hist).align = 16
          /\ 1048576 <= Last(hist).ptr /\ Last(hist).ptr < 1114112
       \/ Last(hist).align = 4096 /\ nops = MaxOps

(***************************************************************************)
(* C7.  allocate(size, align) returns null if and only if the size         *)
(* rounding fails or no block reachable from the head is free with         *)
(* size >= rounded_size + 2*HEADER_SIZE + rounded_align; the call never    *)
(* aborts.                                                                 *)
(***************************************************************************)
C7_NullIffNoFit ==
    [][ (hist' # hist /\ Last(hist').op = "alloc") =>
            LET c == Last(hist') IN
            /\ (c.ptr = NULL) <=>
                   \/ RoundingFails(c.size)
                   \/ ~(\E h \in Blocks : Fits(mem, h, c.size, c.align))
            /\ ~c.abort ]_vars

\* C7 witness: after seeding a single 16-page region, allocate(1 MiB, 8)
\* has returned null.
C7_Witness ==
    /\ mmap = <<Desc(CONVENTIONAL_MEMORY, 1048576, 16)>>
    /\ Len(hist) = 2
    /\ Last(hist) = Call("alloc", 1048576, 8, NULL, FALSE)

(***************************************************************************)
(* C8.  After initialize over a memory map whose N usable regions all stay *)
(* larger than one page after adjustment, and before any allocate, the     *)
(* chain holds exactly N blocks, all free.  As claimed, their sizes add up *)
(* to the regions' sizes minus one header per region minus one page per    *)
(* region starting at 0 (C8_TotalMinusHeaders); as amended, no header is   *)
(* deducted, a block's size includes its header (C8_Total).                *)
(***************************************************************************)
Usable(mm) == { i \in 1..Len(mm) : mm[i].memory_type = CONVENTIONAL_MEMORY }

RECURSIVE SumBytes(_, _)
SumBytes(mm, I) ==
    IF I = {} THEN 0
    ELSE LET i == CHOOSE x \in I : TRUE
         IN  mm[i].number_of_pages * PAGE_SIZE + SumBytes(mm, I \ {i})

ZeroStarts(mm) == { i \in Usable(mm) : mm[i].physical_start = 0 }

JustSeeded ==
    /\ ninit = 1
    /\ Last(hist).op = "init"
    /\ \A i \in Usable(mmap) : AdjSize(mmap[i]) > PAGE_SIZE

C8_TotalMinusHeaders ==
    JustSeeded =>
        /\ Len(Chain) = Cardinality(Usable(mmap))
        /\ \A h \in Blocks : ~mem[h].is_allocated
        /\ SumSizes(mem, Blocks) =
               SumBytes(mmap, Usable(mmap))
               - Cardinality(Usable(mmap)) * HEADER_SIZE
               - Cardinality(ZeroStarts(mmap)) * PAGE_SIZE

C8_Total ==
    JustSeeded =>
        /\ Len(Chain) = Cardinality(Usable(mmap))
        /\ \A h \in Blocks : ~mem[h].is_allocated
        /\ SumSizes(mem, Blocks) =
               SumBytes(mmap, Usable(mmap))
               - Cardinality(ZeroStarts(mmap)) * PAGE_SIZE

\* C8 witness: two usable regions seeded, one of them starting at 0.
C8_Witness ==
    /\ JustSeeded
    /\ Cardinality(Usable(mmap)) = 2
    /\ Cardinality(ZeroStarts(mmap)) = 1

(***************************************************************************)
(* C9.  Bootstrap seeds exactly the regions that are usable and, after a   *)
(* start of 0 has been moved forward by one page, larger than one page;    *)
(* no block ever starts below address 4096 and no allocate ever returns an *)
(* address below 4096.                                                     *)
(***************************************************************************)
C9_SeedOnlyUsable ==
    ninit = 1 =>
        /\ Last(hist).op = "init" =>
               { [start |-> h, size |-> mem[h].size] : h \in Blocks }
                   = SeededRegions(mmap)
        /\ \A h \in Blocks : h >= PAGE_SIZE
        /\ \A i \in 1..Len(hist) :
               (hist[i].op = "alloc" /\ hist[i].ptr # NULL) =>
                   hist[i].ptr >= PAGE_SIZE

\* C9 witness: a map with a usable region at 0 and a region of another
\* class, and an allocation served from it.
C9_Witness ==
    /\ Len(mmap) = 2
    /\ mmap[1].physical_start = 0
    /\ Seedable(mmap[1])
    /\ mmap[2].memory_type # CONVENTIONAL_MEMORY
    /\ Last(hist).op = "alloc"
    /\ Last(hist).ptr # NULL

(***************************************************************************)
(* C10.  For v > 0 that some representable power of two reaches,           *)
(* round_up_to_nearest_pow2(v) is the smallest power of two >= v; for v    *)
(* above the largest representable power of two it is an error.            *)
(***************************************************************************)
C10_RoundUp ==
    pow2_out.done =>
        /\ (0 < pow2_in /\ pow2_in <= Pow2[USIZE_BITS - 1]) =>
               /\ pow2_out.ok
               /\ IsPow2(pow2_out.val)
               /\ pow2_out.val >= pow2_in
               /\ \A q \in Powers : q >= pow2_in => pow2_out.val <= q
        /\ pow2_in > Pow2[USIZE_BITS - 1] => ~pow2_out.ok

\* C10 witness: a power of two above the header size was mapped to itself.
C10_Witness ==
    /\ pow2_out.done
    /\ pow2_out.ok
    /\ pow2_in > HEADER_SIZE
    /\ IsPow2(pow2_in)
    /\ pow2_out.val = pow2_in

(***************************************************************************)
(* C5.  On a heap seeded from one region, allocate(s, a), deallocate of    *)
(* the result, allocate(s, a).  As claimed, the second allocate succeeds   *)
(* whenever the total free space is sufficient for the request             *)
(* (C5_SucceedsIfTotalFree).  As amended, it succeeds whenever the head    *)
(* block left by the first allocate, the region less rounded_size +        *)
(* HEADER_SIZE + alignment leftover, still satisfies the request: released *)
(* bytes are not merged back (C5_SucceedsIfHeadFits).                      *)
(***************************************************************************)
Cycle ==
    /\ Len(hist) = 4
    /\ hist[1].op = "init"
    /\ Cardinality(SeededRegions(mmap)) = 1
    /\ hist[2].op = "alloc" /\ hist[2].ptr # NULL
    /\ hist[3].op = "dealloc" /\ hist[3].ptr = hist[2].ptr
    /\ hist[4].op = "alloc"
    /\ hist[4].size = hist[2].size /\ hist[4].align = hist[2].align

TotalFree == SumSizes(mem, { h \in Blocks : ~mem[h].is_allocated })

\* Bytes the first allocate takes from the top of a region ending at e.
Consumed(e, size, align) ==
    LET top == e - RoundedSize(size)
        addr == top - (top % RoundedAlign(align))
    IN  e - (addr - HEADER_SIZE)

HeadFits ==
    LET R == CHOOSE r \in SeededRegions(mmap) : TRUE
    IN  R.size - Consumed(R.start + R.size, hist[2].size, hist[2].align)
            >= Threshold(hist[2].size, hist[2].align)

C5_SucceedsIfTotalFree ==
    (Cycle /\ TotalFree >= Threshold(hist[4].size, hist[4].align)) =>
        hist[4].ptr # NULL

C5_SucceedsIfHeadFits ==
    (Cycle /\ HeadFits) => hist[4].ptr # NULL

\* C5 witness: the cycle was run with a request that left alignment
\* leftover, and the second allocate returned another address.
C5_Witness ==
    /\ Cycle
    /\ HeadFits
    /\ hist[4].ptr # NULL
    /\ hist[4].ptr # hist[2].ptr
    /\ Consumed(0, hist[2].size, hist[2].align)
           > RoundedSize(hist[2].size) + HEADER_SIZE

(***************************************************************************)
(* C6.  After seeding one region, repeating allocate with a fixed non-zero *)
(* size eventually returns null; no call aborts and no two of the returned *)
(* payload ranges overlap.                                                 *)
(***************************************************************************)
C6_Exhaustion ==
    /\ [](\A i \in 1..Len(hist) : ~hist[i].abort)
    /\ [](\A a, b \in live :
              a # b => Disjoint(a.ptr, a.ptr + a.size, b.ptr, b.ptr + b.size))
    /\ <>Failed

\* C6 witness: the loop got null after several allocations were returned.
C6_Witness ==
    /\ fixed # NoLayout
    /\ Failed
    /\ Cardinality(live) >= 3
    /\ Cardinality(live) = Len(hist) - 2

(***************************************************************************)
(* C11.  deallocate(address) changes exactly one thing: the allocated flag *)
(* of the header HEADER_SIZE bytes before address becomes false.  That     *)
(* header's size and next, every other header, the head, and the number    *)
(* and order of the chain's blocks are unchanged, whatever size and        *)
(* alignment are passed.                                                   *)
(***************************************************************************)
C11_DeallocFrame ==
    [][ (hist' # hist /\ Last(hist').op = "dealloc") =>
            LET h == Last(hist').ptr - HEADER_SIZE IN
            /\ h \in DOMAIN mem
            /\ DOMAIN mem' = DOMAIN mem
            /\ mem'[h] = [mem[h] EXCEPT !.is_allocated = FALSE]
            /\ \A o \in DOMAIN mem \ {h} : mem'[o] = mem[o]
            /\ first_header' = first_header
            /\ Chain' = Chain ]_vars

\* C11 witness: allocate(2048, 8) returned a block whose header was marked
\* allocated, and the deallocate that followed has cleared the flag in a
\* chain of at least three blocks.
C11_Witness ==
    /\ Len(hist) >= 3
    /\ Last(hist).op = "dealloc"
    /\ \E i \in 1..(Len(hist) - 1) :
           /\ hist[i] = Call("alloc", 2048, 8, Last(hist).ptr, FALSE)
    /\ ~mem[Last(hist).ptr - HEADER_SIZE].is_allocated
    /\ Len(Chain) >= 3

(***************************************************************************)
(* C12.  No operation removes, merges or destroys a header: a block        *)
(* reachable from the head stays reachable at the same address, the number *)
(* of chain blocks never decreases, no block grows by absorbing a          *)
(* neighbour, and the "Header dropped" abort is never reached.             *)
(***************************************************************************)
C12_HeadersKept ==
    [][ /\ Blocks \subseteq Blocks'
        /\ Len(Chain') >= Len(Chain)
        /\ DOMAIN mem \subseteq DOMAIN mem'
        /\ \A h \in Blocks : mem'[h].size <= mem[h].size
        /\ ~Last(hist').abort ]_vars

\* C12 witness: a deallocate has left two free blocks side by side in a
\* chain of at least three blocks, both still headers of their own.
C12_Witness ==
    /\ Last(hist).op = "dealloc"
    /\ Len(Chain) >= 3
    /\ \E h, g \in Blocks :
           /\ h + mem[h].size = g
           /\ g = Last(hist).ptr - HEADER_SIZE
           /\ ~mem[h].is_allocated /\ ~mem[g].is_allocated

(***************************************************************************)
(* C13.  While an allocate is in the middle of traversing the Free List,   *)
(* any other call that would read or write Free List headers (allocate,    *)
(* region seeding, deallocate) is stopped by the borrow check: it aborts   *)
(* and every header is left as it was.                                     *)
(***************************************************************************)
C13_SingleAccess ==
    [][ (borrowed /\ borrowed' /\ hist' # hist) =>
            /\ Last(hist').abort
            /\ \A h \in DOMAIN mem : mem'[h] = mem[h] ]_vars

(***************************************************************************)
(* C14.  A successful allocate serves the request from the first block in  *)
(* traversal order that is free with size >= rounded_size + 2*HEADER_SIZE  *)
(* + rounded_align: the returned address lies inside that block, every     *)
(* block before it and every block after it is left exactly as it was,     *)
(* and the chain up to that block is the same.                             *)
(***************************************************************************)
\* The position in the chain ch of the first block at or after position i
\* that is free with size >= t; 0 when there is none.
RECURSIVE FirstAt(_, _, _)
FirstAt(ch, i, t) ==
    IF i > Len(ch) THEN 0
    ELSE IF ~mem[ch[i]].is_allocated /\ mem[ch[i]].size >= t THEN i
    ELSE FirstAt(ch, i + 1, t)

FirstFit(size, align) ==
    LET t == Threshold(size, align)
        ch == Chain
    IN  FirstAt(ch, 1, t)

C14_FirstFit ==
    [][ (hist' # hist /\ Last(hist').op = "alloc" /\ Last(hist').ptr # NULL) =>
            LET c == Last(hist') IN
            /\ FirstFit(c.size, c.align) # 0
            /\ LET i == FirstFit(c.size, c.align)
                   b == Chain[i]
               IN  /\ b + HEADER_SIZE < c.ptr
                   /\ c.ptr + RoundedSize(c.size) <= b + mem[b].size
                   /\ mem'[b] # mem[b]
                   /\ \A j \in 1..Len(Chain) :
                          j # i => mem'[Chain[j]] = mem[Chain[j]]
                   /\ \A j \in 1..i : Chain'[j] = Chain[j] ]_vars

\* C14 witness: the last allocate was served from a block that is neither
\* the head nor the last block: the head is free but was too small.
C14_Witness ==
    /\ Last(hist).op = "alloc"
    /\ Last(hist).ptr # NULL
    /\ ~mem[Chain[1]].is_allocated
    /\ \E i \in 2..(Len(Chain) - 2) :
           mem[Chain[i]].next_header = Last(hist).ptr - HEADER_SIZE

(***************************************************************************)
(* C15.  A successful split adds the allocated block's header right after  *)
(* the original block in the chain.  When bytes are left over between the  *)
(* allocated block and the original's end, it adds a second header, free,  *)
(* of exactly the leftover size, so that the chain reads original,         *)
(* allocated block, leftover, former successor; with no leftover it adds   *)
(* exactly one header.  The original shrinks by exactly the allocated      *)
(* block's size plus the leftover.                                         *)
(***************************************************************************)
C15_SplitLinks ==
    [][ (hist' # hist /\ Last(hist').op = "alloc" /\ Last(hist').ptr # NULL) =>
            LET c == Last(hist')
                b == Chain[FirstFit(c.size, c.align)]
                succ == mem[b].next_header
                ha == c.ptr - HEADER_SIZE
                hp == c.ptr + RoundedSize(c.size)
                leftover == (b + mem[b].size) - hp
            IN  /\ mem'[ha].size = RoundedSize(c.size) + HEADER_SIZE
                /\ mem'[b].next_header = ha
                /\ mem'[b].size = mem[b].size - (mem'[ha].size + leftover)
                /\ IF leftover > 0
                   THEN /\ DOMAIN mem' \ DOMAIN mem = {ha, hp}
                        /\ mem'[ha].next_header = hp
                        /\ mem'[hp] = [next_header |-> succ,
                                       size |-> leftover,
                                       is_allocated |-> FALSE]
                   ELSE /\ DOMAIN mem' \ DOMAIN mem = {ha}
                        /\ mem'[ha].next_header = succ ]_vars

\* C15 witness: the last allocate left a leftover block, which sits in the
\* chain between the allocated block and a former successor.
C15_Witness ==
    /\ Last(hist).op = "alloc"
    /\ Last(hist).ptr # NULL
    /\ \E i \in 2..(Len(Chain) - 2) :
           /\ Chain[i] = Last(hist).ptr - HEADER_SIZE
           /\ Chain[i + 1] = Last(hist).ptr + RoundedSize(Last(hist).size)
           /\ ~mem[Chain[i + 1]].is_allocated

(***************************************************************************)
(* C16.  Each seeded region becomes one free block that is put in front of *)
(* the chain: right after initialize the chain lists the seeded regions in *)
(* reverse visitation order, the head being the last region visited, and   *)
(* the first allocate is served from that region when it can be.           *)
(***************************************************************************)
RECURSIVE SeededInOrder(_, _)
SeededInOrder(mm, i) ==
    IF i > Len(mm) THEN <<>>
    ELSE (IF Seedable(mm[i])
          THEN <<[start |-> AdjStart(mm[i]), size |-> AdjSize(mm[i])]>>
          ELSE <<>>) \o SeededInOrder(mm, i + 1)

C16_ReverseOrder ==
    LET S == SeededInOrder(mmap, 1)
        N == Len(S)
    IN  /\ (ninit = 1 /\ Last(hist).op = "init") =>
               /\ Len(Chain) = N
               /\ first_header = (IF N = 0 THEN NULL ELSE S[N].start)
               /\ \A k \in 1..N :
                      /\ Chain[k] = S[N + 1 - k].start
                      /\ mem[Chain[k]] =
                             [next_header |->
                                  IF k = N THEN NULL ELSE S[N - k].start,
                              size |-> S[N + 1 - k].size,
                              is_allocated |-> FALSE]
        /\ (/\ ninit = 1 /\ Len(hist) = 2 /\ Last(hist).op = "alloc"
            /\ N > 0
            /\ ~RoundingFails(Last(hist).size)
            /\ S[N].size >= Threshold(Last(hist).size, Last(hist).align)) =>
               /\ S[N].start < Last(hist).ptr
               /\ Last(hist).ptr < S[N].start + S[N].size

\* C16 witness: initialize has visited two usable regions and the head is
\* the second one, the first one being its successor.
C16_Witness ==
    /\ ninit = 1
    /\ Last(hist).op = "init"
    /\ Len(mmap) = 2
    /\ Seedable(mmap[1]) /\ Seedable(mmap[2])
    /\ first_header = AdjStart(mmap[2])
    /\ mem[first_header].next_header = AdjStart(mmap[1])

(***************************************************************************)
(* C17.  A second initialize.  As claimed, it discards the existing Free   *)
(* List: afterwards the blocks reachable from the head are exactly the     *)
(* blocks it seeded (C17_Discards).  As amended, when the regions it seeds *)
(* are disjoint from the regions seeded before, it keeps the list: the new *)
(* blocks are put in front, in reverse visitation order, and the chain     *)
(* that existed before follows them, every header of it unchanged          *)
(* (C17_Prepends).                                                         *)
(***************************************************************************)
SecondCall == ninit = 1 /\ ninit' = 2

RECURSIVE Reverse(_)
Reverse(q) == IF q = <<>> THEN <<>> ELSE Reverse(Tail(q)) \o <<Head(q)>>

Starts(q) == [k \in 1..Len(q) |-> q[k].start]

C18_FailureKeepsState ==
    [][ (hist' # hist /\ Last(hist').op = "alloc" /\ Last(hist').ptr = NULL) =>
            /\ first_header' = first_header
            /\ mem' = mem
            /\ ~Last(hist').abort ]_vars

\* C18 witness: an allocate that could be rounded has returned null after
\* walking a chain of at least three blocks, the head being free.
C18_Witness ==
    /\ Last(hist).op = "alloc"
    /\ Last(hist).ptr = NULL
    /\ ~RoundingFails(Last(hist).size)
    /\ Len(Chain) >= 3
    /\ ~mem[first_header].is_allocated

(***************************************************************************)
(* C19.  With page-aligned regions and power-of-two alignments, every      *)
(* block's start and size are multiples of HEADER_SIZE and its size is at  *)
(* least HEADER_SIZE.  After a successful split the original block keeps   *)
(* at least 2*HEADER_SIZE bytes, and each header the split writes (the     *)
(* allocated block's and the leftover's) lies inside the byte range of the *)
(* block being split, clear of that block's own header and of every other  *)
(* header there is.                                                        *)
(***************************************************************************)
HeaderClear(n, b) ==
    /\ b + HEADER_SIZE <= n
    /\ n + HEADER_SIZE <= b + mem[b].size
    /\ \A o \in DOMAIN mem :
           Disjoint(n, n + HEADER_SIZE, o, o + HEADER_SIZE)

C19_Granularity ==
    /\ [](\A h \in Blocks :
             /\ h % HEADER_SIZE = 0
             /\ mem[h].size % HEADER_SIZE = 0
             /\ mem[h].size >= HEADER_SIZE)
    /\ [][ (hist' # hist /\ Last(hist').op = "alloc"
                        /\ Last(hist').ptr # NULL) =>
              LET c == Last(hist')
                  ha == c.ptr - HEADER_SIZE
                  hp == c.ptr + RoundedSize(c.size)
                  \* the block that was split: the one now pointing at ha
                  split == { b \in Blocks : mem'[b].next_header = ha }
              IN  /\ split # {}
                  /\ \A b \in split :
                         /\ mem'[b].size >= 2 * HEADER_SIZE
                         /\ HeaderClear(ha, b)
                         /\ hp < b + mem[b].size => HeaderClear(hp, b)
                         /\ hp <= b + mem[b].size
                  /\ DOMAIN mem' \subseteq DOMAIN mem \cup {ha, hp} ]_vars

\* C19 witness: the last allocate split a block and left the original too
\* small for the same request, with the new header right behind it.
C19_Witness ==
    /\ Last(hist).op = "alloc"
    /\ Last(hist).ptr # NULL
    /\ \E b \in Blocks :
           /\ mem[b].next_header = Last(hist).ptr - HEADER_SIZE
           /\ mem[b].size < Threshold(Last(hist).size, Last(hist).align)
           /\ b + mem[b].size = Last(hist).ptr - HEADER_SIZE

(***************************************************************************)
(* C20.  In a loop that repeats allocate(s, a) and deallocates each result *)
(* before the next call, a released block is never chosen again: every    *)
(* successful call returns an address different from all earlier ones and  *)
(* outside every block released so far, and some call eventually returns   *)
(* null.                                                                   *)
(***************************************************************************)
C20_NoReuse ==
    /\ []((Last(hist).op = "alloc" /\ Last(hist).ptr # NULL) =>
             \A i \in 1..(Len(hist) - 1) :
                /\ hist[i].op = "alloc" => hist[i].ptr # Last(hist).ptr
                /\ hist[i].op = "dealloc" =>
                       Disjoint(Last(hist).ptr - HEADER_SIZE,
                                Last(hist).ptr + RoundedSize(fixed[1]),
                                hist[i].ptr - HEADER_SIZE,
                                hist[i].ptr + RoundedSize(fixed[1])))
    /\ <>Failed

\* C20 witness: after at least three rounds of allocate and deallocate the
\* next allocate has returned null, although every block is free.
C20_Witness ==
    /\ Failed
    /\ Len(hist) >= 8
    /\ hist[Len(hist) - 1].op = "dealloc"
    /\ live = {}
    /\ \A h \in Blocks : ~mem[h].is_allocated

(***************************************************************************)
(* C21.  After a single initialize over disjoint regions the chain of next *)
(* links from the head is finite and acyclic in every reachable state: it  *)
(* passes no header twice and ends in null.  An allocate therefore         *)
(* terminates after at most one provide attempt per chain block: its       *)
(* cursor starts at the head, and every attempt either ends the call or    *)
(* moves the cursor to the next block of the chain, or past its end.       *)
(***************************************************************************)
\* The position of header h in the sequence ch; 0 when it is not there.
PosIn(ch, h) ==
    IF \E i \in 1..Len(ch) : ch[i] = h
    THEN CHOOSE i \in 1..Len(ch) : ch[i] = h
    ELSE 0

Acyclic ==
    /\ Len(Chain) <= Cardinality(DOMAIN mem)
    /\ \A i, j \in 1..Len(Chain) : i # j => Chain[i] # Chain[j]
    /\ Chain # <<>> => mem[Chain[Len(Chain)]].next_header = NULL

C21_Terminates ==
    /\ [](Acyclic)
    /\ []((walk.active /\ walk.cur # NULL) => walk.cur \in Blocks)
    /\ [][ (~walk.active /\ walk'.active) =>
              walk'.cur = first_header ]_vars
    /\ [][ (walk.active /\ walk' # walk) =>
              \/ ~walk'.active
              \/ /\ walk.cur # NULL
                 /\ mem' = mem
                 /\ LET i == PosIn(Chain, walk.cur) IN
                    /\ i > 0
                    /\ walk'.cur = (IF i = Len(Chain)
                                    THEN NULL ELSE Chain[i + 1]) ]_vars

\* C21 witness: an allocate in progress has tried two blocks of a chain of
\* at least four and its cursor is on the third.
C21_Witness ==
    /\ ninit = 1
    /\ walk.active
    /\ Len(Chain) >= 4
    /\ walk.cur = Chain[3]

(***************************************************************************)
(* C22.  allocate with a requested size of 0 always returns null, whatever *)
(* free space the heap has, because rounding 0 up to a power of two fails. *)
(* The failure is a returned value, not an abort, and the head and every   *)
(* header are left as they were, by every attempt of the call.             *)
(***************************************************************************)
C22_ZeroSizeFails ==
    /\ [](~round_up_to_nearest_pow2(0).ok)
    /\ [][ (walk.active /\ walk.size = 0 /\ walk' # walk) =>
              /\ mem' = mem
              /\ first_header' = first_header
              /\ hist' # hist =>
                     /\ Last(hist') = Call("alloc", 0, walk.align, NULL, FALSE)
                     /\ live' = live ]_vars

\* C22 witness: on a freshly seeded heap whose head is a free block of at
\* least two pages, allocate(0, 8) has returned null.
C22_Witness ==
    /\ Len(hist) = 2
    /\ hist[1].op = "init"
    /\ hist[2] = Call("alloc", 0, 8, NULL, FALSE)
    /\ first_header # NULL
    /\ ~mem[first_header].is_allocated
    /\ mem[first_header].size >= 2 * PAGE_SIZE

====
